---- MODULE Spec2Model ----
(***************************************************************************)
(* Voice emotion app (src/app.py): the emotion classifier, the timeline    *)
(* segmenter, the /upload request handler and the PDF report renderer.     *)
(*                                                                         *)
(* A string is a sequence of one-character strings.  Scores of the         *)
(* sentiment scorer are exact rationals in hundredths: a score is a record *)
(* [num, den] standing for num / (100 * den).  Lengths on the PDF page are *)
(* in hundredths of a point.                                               *)
(***************************************************************************)
EXTENDS Integers, Sequences, FiniteSets, TLC

VARIABLES
    \* a single call of a pure function
    fn, arg, ret,
    \* the /upload handler: one entry per handler thread
    pc, req, filename, text, emotion, timeline, emotion_count, pdf_file, response,
    \* what the handler threads share: the two folders, the reports table,
    \* and the responses sent so far
    uploads, static, reports, served, log,
    \* one run of generate_pdf, a loop iteration at a time
    pdfpc, pdftimeline, y, k, page, drawn

pureVars == <<fn, arg, ret>>
handlerVars == <<pc, req, filename, text, emotion, timeline, emotion_count,
                 pdf_file, response, uploads, static, reports, served, log>>
pdfVars == <<pdfpc, pdftimeline, y, k, page, drawn>>
vars == <<fn, arg, ret, pc, req, filename, text, emotion, timeline, emotion_count,
          pdf_file, response, uploads, static, reports, served, log,
          pdfpc, pdftimeline, y, k, page, drawn>>

----------------------------------------------------------------------------
(* Bounds *)

\* longest transcript, in words, of the segmenter and of the single-request runs
MaxWords == 6
\* longest text, in words, handed to the classifier on its own
MaxClsWords == 2
\* requests the server accepts in a run with two handler threads
MaxRequests == 2
\* longest timeline handed to the renderer on its own
MaxSpans == 33

----------------------------------------------------------------------------
(* Strings *)

IsSpace(c) == c \in {" ", "\t", "\n"}

\* str.split(): the maximal runs of non-whitespace characters, in order
RECURSIVE SplitFrom(_, _, _, _)
SplitFrom(s, i, cur, acc) ==
    IF i > Len(s)
    THEN IF cur = <<>> THEN acc ELSE Append(acc, cur)
    ELSE IF IsSpace(s[i])
         THEN SplitFrom(s, i + 1, <<>>, IF cur = <<>> THEN acc ELSE Append(acc, cur))
         ELSE SplitFrom(s, i + 1, Append(cur, s[i]), acc)

Split(s) == SplitFrom(s, 1, <<>>, <<>>)

\* sep.join(words)
RECURSIVE JoinWith(_, _)
JoinWith(words, sep) ==
    IF words = <<>> THEN <<>>
    ELSE IF Len(words) = 1 THEN words[1]
    ELSE words[1] \o sep \o JoinWith(Tail(words), sep)

\* " ".join(words)
Join(words) == JoinWith(words, <<" ">>)

Slice_inclusive(words, i, j) ==
    LET hi == IF j + 1 < Len(words) THEN j + 1 ELSE Len(words)
    IN  IF i >= hi THEN <<>> ELSE [n \in 1..(hi - i) |-> words[i + n]]

\* words[i:j] of a Python list: 0-based, j exclusive, clipped to the list
Slice(words, i, j) ==
    LET hi == IF j < Len(words) THEN j ELSE Len(words)
    IN  IF i >= hi THEN <<>> ELSE [n \in 1..(hi - i) |-> words[i + n]]

----------------------------------------------------------------------------
(* Words and the sentiment scorer *)

good      == <<"g", "o", "o", "d">>
bad       == <<"b", "a", "d">>
the       == <<"t", "h", "e">>
real      == <<"r", "e", "a", "l">>
few       == <<"f", "e", "w">>
sure      == <<"s", "u", "r", "e">>
sorry     == <<"s", "o", "r", "r", "y">>
angry     == <<"a", "n", "g", "r", "y">>
happy     == <<"h", "a", "p", "p", "y">>
emotional == <<"e", "m", "o", "t", "i", "o", "n", "a", "l">>

\* Entries of the scorer's lexicon, <<polarity, subjectivity>> in hundredths:
\* one entry in each region the thresholds cut [-1,1] x [0,1] into, and one
\* on each threshold.  A word outside the lexicon (the) carries no score.
LexiconWords == {good, bad, real, few, sure, sorry, angry, happy, emotional}

Lexicon(w) ==
    CASE w = good      -> <<70, 60>>
      [] w = bad       -> <<-70, 67>>
      [] w = real      -> <<20, 30>>
      [] w = few       -> <<-20, 10>>
      [] w = sure      -> <<50, 89>>
      [] w = sorry     -> <<-50, 100>>
      [] w = angry     -> <<-50, 100>>
      [] w = happy     -> <<80, 100>>
      [] w = emotional -> <<0, 65>>

RECURSIVE SumScores(_, _)
SumScores(ws, j) ==
    IF ws = <<>> THEN 0
    ELSE (IF ws[1] \in LexiconWords THEN Lexicon(ws[1])[j] ELSE 0)
         + SumScores(Tail(ws), j)

RECURSIVE CountScored(_)
CountScored(ws) ==
    IF ws = <<>> THEN 0
    ELSE (IF ws[1] \in LexiconWords THEN 1 ELSE 0) + CountScored(Tail(ws))

\* TextBlob(text).sentiment: the mean of the scores of the words of the text
\* that the lexicon knows, and (0.0, 0.0) when it knows none of them
Sentiment(s) ==
    LET ws == Split(s)
        n  == CountScored(ws)
        d  == IF n = 0 THEN 1 ELSE n
    IN  [polarity     |-> [num |-> SumScores(ws, 1), den |-> d],
         subjectivity |-> [num |-> SumScores(ws, 2), den |-> d]]

\* comparisons of a score with a number of hundredths
Gt(q, h) == q.num > h * q.den
Lt(q, h) == q.num < h * q.den
Ge(q, h) == q.num >= h * q.den
Le(q, h) == q.num <= h * q.den

----------------------------------------------------------------------------
(* detect_emotion *)

\* the three label strings; the last character is the emoji
HappyLabel   == <<"H", "a", "p", "p", "y", " ", "U+1F60A">>
SadLabel     == <<"S", "a", "d", " ", "U+1F622">>
NeutralLabel == <<"N", "e", "u", "t", "r", "a", "l", " ", "U+1F642">>

\* the polarity thresholds 0.2 and -0.2, in hundredths
HappyAbove == 20
SadBelow == -20

detect_emotion_inclusive(s) ==
    LET polarity == Sentiment(s).polarity
    IN  IF Ge(polarity, HappyAbove) THEN HappyLabel
        ELSE IF Le(polarity, SadBelow) THEN SadLabel
        ELSE NeutralLabel

AngryLabel == <<"A", "n", "g", "r", "y", " ", "U+1F620">>

detect_emotion_keywords(s) ==
    LET polarity == Sentiment(s).polarity
    IN  IF \E i \in 1..Len(Split(s)) : Split(s)[i] = angry THEN AngryLabel
        ELSE IF Gt(polarity, HappyAbove) THEN HappyLabel
        ELSE IF Lt(polarity, SadBelow) THEN SadLabel
        ELSE NeutralLabel

detect_emotion(s) ==
    LET polarity == Sentiment(s).polarity
    IN  IF Gt(polarity, HappyAbove) THEN HappyLabel
        ELSE IF Lt(polarity, SadBelow) THEN SadLabel
        ELSE NeutralLabel

----------------------------------------------------------------------------
(* split_timeline *)

step == 3
Window == 5

RECURSIVE split_timeline_loop(_, _, _, _)
split_timeline_loop(words, i, start, tl) ==
    IF i >= Len(words) THEN tl
    ELSE LET part == Join(Slice(words, i, i + Window))
             emo  == detect_emotion(part)
         IN  split_timeline_loop(words, i + Window, start + step,
                 Append(tl, [start |-> start, end |-> start + step,
                             text |-> part, emotion |-> emo]))

split_timeline_padded(s) ==
    LET tl == split_timeline_loop(Split(s), 0, 0, <<>>)
    IN  IF tl = <<>>
        THEN <<[start |-> 0, end |-> step, text |-> <<>>,
                emotion |-> detect_emotion(<<>>)]>>
        ELSE tl

split_timeline(s) == split_timeline_loop(Split(s), 0, 0, <<>>)

----------------------------------------------------------------------------
(* Inputs *)

WordSeqs(V, n) == UNION {[1..m -> V] : m \in 0..n}

\* the words of the transcripts: one the scorer finds positive, one it finds
\* negative, one it does not know
Vocabulary == {good, bad, the}

\* the words of the texts the classifier is called on alone
ClsVocabulary == LexiconWords \cup {the}

\* whitespace before, between and after the words of a text
Leads == {<<>>, <<" ">>}
Seps == {<<" ">>, <<" ", "\t">>}
Trails == {<<>>, <<"\n">>}

\* a text, kept with the words it was written from
SegArgs ==
    {[words |-> ws, text |-> lead \o JoinWith(ws, sep) \o trail] :
        ws \in WordSeqs(Vocabulary, MaxWords), lead \in Leads,
        sep \in Seps, trail \in Trails}

ClsArgs ==
    {[words |-> ws, text |-> Join(ws)] : ws \in WordSeqs(ClsVocabulary, MaxClsWords)}

----------------------------------------------------------------------------
(* The /upload handler *)

Threads == {"t1", "t2"}

\* an uploaded audio file: whether sr.AudioFile can read it, whether
\* recognize_google returns a transcript of it (or raises), and the transcript
Undecodable == [decodable |-> FALSE, recognizable |-> FALSE, speech |-> <<>>]
Unintelligible == [decodable |-> TRUE, recognizable |-> FALSE, speech |-> <<>>]
Speech(s) == [decodable |-> TRUE, recognizable |-> TRUE, speech |-> s]

Users == {"u1"}

\* a request that carries no file part
NoFile == [user |-> "u1", file |-> FALSE, name |-> "", audio |-> Undecodable]

UploadNames == {"a.wav", "../a.wav", "b.wav"}

\* werkzeug's secure_filename on the names above: the directory part goes
secure_filename(n) == IF n = "../a.wav" THEN "a.wav" ELSE n

SavedNames == {secure_filename(n) : n \in UploadNames}

\* the requests of a run with two handler threads
Requests ==
    {NoFile} \cup
    {[user |-> u, file |-> TRUE, name |-> n, audio |-> a] :
        u \in Users, n \in UploadNames,
        a \in {Undecodable, Unintelligible, Speech(Join(<<good>>))}}

\* the requests of a run with one request: every transcript
PipeRequests ==
    {NoFile} \cup
    {[user |-> u, file |-> TRUE, name |-> "a.wav", audio |-> a] :
        u \in Users,
        a \in {Undecodable, Unintelligible}
              \cup {Speech(Join(ws)) : ws \in WordSeqs(Vocabulary, MaxWords)}}

CouldNotRecognize ==
    <<"C", "o", "u", "l", "d", " ", "n", "o", "t", " ",
      "r", "e", "c", "o", "g", "n", "i", "z", "e", " ",
      "s", "p", "e", "e", "c", "h">>

AudioFileError == "Audio file could not be read"

\* recognize_speech(path) on the file at path: what it raises or returns
recognize_speech(audio) ==
    IF ~audio.decodable THEN [raises |-> AudioFileError, value |-> <<>>]
    ELSE IF ~audio.recognizable THEN [raises |-> "", value |-> CouldNotRecognize]
    ELSE [raises |-> "", value |-> audio.speech]

\* A dict is the sequence of its <<key, value>> pairs in insertion order.
DictHas(d, key) == \E i \in 1..Len(d) : d[i][1] = key

DictGet_default(d, key, default) == default

DictGet(d, key, default) ==
    IF DictHas(d, key)
    THEN d[CHOOSE i \in 1..Len(d) : d[i][1] = key][2]
    ELSE default

DictSet(d, key, v) ==
    IF DictHas(d, key)
    THEN [i \in 1..Len(d) |-> IF d[i][1] = key THEN <<key, v>> ELSE d[i]]
    ELSE Append(d, <<key, v>>)

DictKeys(d) == [i \in 1..Len(d) |-> d[i][1]]
DictValues(d) == [i \in 1..Len(d) |-> d[i][2]]

\* the chart loop of upload
RECURSIVE Tally(_, _)
Tally(tl, d) ==
    IF tl = <<>> THEN d
    ELSE LET emo == Split(tl[1].emotion)[1]
         IN  Tally(Tail(tl), DictSet(d, emo, DictGet(d, emo, 0) + 1))

ReportPdf == "report.pdf"

\* what generate_pdf writes: the document showing text, emotion and timeline
generate_pdf(txt, emo, tl) == [text |-> txt, emotion |-> emo, timeline |-> tl]

TrySteps == {"save", "recognize", "classify", "segment", "chart", "pdf", "insert"}

ErrorResponse(msg) == [kind |-> "error", error |-> msg]

NoResponse == [kind |-> "none"]

\* a file that does not exist
Absent == [exists |-> FALSE]

\* the locals of a handler that is not running
ClearLocals(t) ==
    /\ filename' = [filename EXCEPT ![t] = ""]
    /\ text' = [text EXCEPT ![t] = <<>>]
    /\ emotion' = [emotion EXCEPT ![t] = <<>>]
    /\ timeline' = [timeline EXCEPT ![t] = <<>>]
    /\ emotion_count' = [emotion_count EXCEPT ![t] = <<>>]
    /\ pdf_file' = [pdf_file EXCEPT ![t] = ""]

\* the except clause of upload: the response is the error's message
Catch(t, msg) ==
    /\ pc' = [pc EXCEPT ![t] = "done"]
    /\ response' = [response EXCEPT ![t] = ErrorResponse(msg)]
    /\ log' = Append(log, "error")
    /\ ClearLocals(t)

\* a request arrives; without a file it is answered at once
Receive(t, requests, limit) ==
    /\ UNCHANGED <<fn, arg, ret, pdfpc, pdftimeline, y, k, page, drawn>>
    /\ pc[t] \in {"idle", "done"}
    /\ served < limit
    /\ served' = served + 1
    /\ \E r \in requests :
        /\ req' = [req EXCEPT ![t] = r]
        /\ IF ~r.file \/ r.name = ""
           THEN /\ pc' = [pc EXCEPT ![t] = "done"]
                /\ response' = [response EXCEPT ![t] = ErrorResponse("No file selected")]
                /\ log' = Append(log, "error")
           ELSE /\ pc' = [pc EXCEPT ![t] = "save"]
                /\ response' = [response EXCEPT ![t] = NoResponse]
                /\ log' = log
    /\ UNCHANGED <<filename, text, emotion, timeline, emotion_count, pdf_file,
                   uploads, static, reports>>

SaveFile(t) ==
    /\ UNCHANGED <<fn, arg, ret, pdfpc, pdftimeline, y, k, page, drawn>>
    /\ pc[t] = "save"
    /\ filename' = [filename EXCEPT ![t] = secure_filename(req[t].name)]
    /\ uploads' = [uploads EXCEPT ![secure_filename(req[t].name)] = req[t].audio]
    /\ pc' = [pc EXCEPT ![t] = "recognize"]
    /\ UNCHANGED <<req, text, emotion, timeline, emotion_count, pdf_file, response,
                   static, reports, served, log>>

Recognize(t) ==
    /\ UNCHANGED <<fn, arg, ret, pdfpc, pdftimeline, y, k, page, drawn>>
    /\ pc[t] = "recognize"
    /\ LET r == recognize_speech(uploads[filename[t]])
       IN  IF r.raises # ""
           THEN Catch(t, r.raises)
           ELSE /\ text' = [text EXCEPT ![t] = r.value]
                /\ pc' = [pc EXCEPT ![t] = "classify"]
                /\ UNCHANGED <<filename, emotion, timeline, emotion_count, pdf_file,
                               response, log>>
    /\ UNCHANGED <<req, uploads, static, reports, served>>

Classify_first_span(t) ==
    /\ UNCHANGED <<fn, arg, ret, pdfpc, pdftimeline, y, k, page, drawn>>
    /\ pc[t] = "classify"
    /\ emotion' = [emotion EXCEPT ![t] =
                      detect_emotion(Join(Slice(Split(text[t]), 0, Window)))]
    /\ pc' = [pc EXCEPT ![t] = "segment"]
    /\ UNCHANGED <<req, filename, text, timeline, emotion_count, pdf_file, response,
                   uploads, static, reports, served, log>>

Classify(t) ==
    /\ UNCHANGED <<fn, arg, ret, pdfpc, pdftimeline, y, k, page, drawn>>
    /\ pc[t] = "classify"
    /\ emotion' = [emotion EXCEPT ![t] = detect_emotion(text[t])]
    /\ pc' = [pc EXCEPT ![t] = "segment"]
    /\ UNCHANGED <<req, filename, text, timeline, emotion_count, pdf_file, response,
                   uploads, static, reports, served, log>>

Segment(t) ==
    /\ UNCHANGED <<fn, arg, ret, pdfpc, pdftimeline, y, k, page, drawn>>
    /\ pc[t] = "segment"
    /\ timeline' = [timeline EXCEPT ![t] = split_timeline(text[t])]
    /\ pc' = [pc EXCEPT ![t] = "chart"]
    /\ UNCHANGED <<req, filename, text, emotion, emotion_count, pdf_file, response,
                   uploads, static, reports, served, log>>

Chart(t) ==
    /\ UNCHANGED <<fn, arg, ret, pdfpc, pdftimeline, y, k, page, drawn>>
    /\ pc[t] = "chart"
    /\ emotion_count' = [emotion_count EXCEPT ![t] = Tally(timeline[t], <<>>)]
    /\ pc' = [pc EXCEPT ![t] = "pdf"]
    /\ UNCHANGED <<req, filename, text, emotion, timeline, pdf_file, response,
                   uploads, static, reports, served, log>>

GeneratePdf(t) ==
    /\ UNCHANGED <<fn, arg, ret, pdfpc, pdftimeline, y, k, page, drawn>>
    /\ pc[t] = "pdf"
    /\ static' = [static EXCEPT ![ReportPdf] =
                     generate_pdf(text[t], emotion[t], timeline[t])]
    /\ pdf_file' = [pdf_file EXCEPT ![t] = ReportPdf]
    /\ pc' = [pc EXCEPT ![t] = "insert"]
    /\ UNCHANGED <<req, filename, text, emotion, timeline, emotion_count, response,
                   uploads, reports, served, log>>

InsertReport(t) ==
    /\ UNCHANGED <<fn, arg, ret, pdfpc, pdftimeline, y, k, page, drawn>>
    /\ pc[t] = "insert"
    /\ reports' = Append(reports, [user_id |-> req[t].user, text |-> text[t],
                                   emotion |-> emotion[t], pdf_file |-> pdf_file[t]])
    /\ pc' = [pc EXCEPT ![t] = "respond"]
    /\ UNCHANGED <<req, filename, text, emotion, timeline, emotion_count, pdf_file,
                   response, uploads, static, served, log>>

Respond(t) ==
    /\ UNCHANGED <<fn, arg, ret, pdfpc, pdftimeline, y, k, page, drawn>>
    /\ pc[t] = "respond"
    /\ response' = [response EXCEPT ![t] =
                       [kind |-> "ok", text |-> text[t], emotion |-> emotion[t],
                        timeline |-> timeline[t],
                        chart_labels |-> DictKeys(emotion_count[t]),
                        chart_data |-> DictValues(emotion_count[t]),
                        pdf_file |-> pdf_file[t], filename |-> filename[t]]]
    /\ pc' = [pc EXCEPT ![t] = "done"]
    /\ log' = Append(log, "ok")
    /\ ClearLocals(t)
    /\ UNCHANGED <<req, uploads, static, reports, served>>

Raise_unhandled(t) ==
    /\ UNCHANGED <<fn, arg, ret, pdfpc, pdftimeline, y, k, page, drawn>>
    /\ pc[t] \in TrySteps
    /\ pc' = [pc EXCEPT ![t] = "unhandled"]
    /\ UNCHANGED <<req, filename, text, emotion, timeline, emotion_count, pdf_file,
                   response, uploads, static, reports, served, log>>

\* a step inside the try block raises; the handler catches it
Raise(t) ==
    /\ UNCHANGED <<fn, arg, ret, pdfpc, pdftimeline, y, k, page, drawn>>
    /\ pc[t] \in TrySteps
    /\ Catch(t, pc[t])
    /\ UNCHANGED <<req, uploads, static, reports, served>>

\* a step of handler thread t
Handler(t, requests, limit) ==
    \/ Receive(t, requests, limit)
    \/ SaveFile(t)
    \/ Recognize(t)
    \/ Classify(t)
    \/ Segment(t)
    \/ Chart(t)
    \/ GeneratePdf(t)
    \/ InsertReport(t)
    \/ Respond(t)
    \/ Raise(t)

----------------------------------------------------------------------------
(* generate_pdf, a drawString at a time *)

\* A4 is 841.89 points high
PageHeight == 84189
TopMargin == 5000
BottomMargin == 5000
TitleGap == 4000
TextGap == 2500
EmotionGap == 4000
HeadingGap == 2500
LineGap == 2000

Draw(p, at, item) == [page |-> p, y |-> at, item |-> item]

\* the canvas is made and the four header lines are drawn
PdfBegin ==
    /\ UNCHANGED <<pureVars, handlerVars>>
    /\ pdfpc = "start"
    /\ LET y0 == PageHeight - TopMargin
           y1 == y0 - TitleGap
           y2 == y1 - TextGap
           y3 == y2 - EmotionGap
       IN  /\ drawn' = <<Draw(1, y0, [kind |-> "title"]),
                         Draw(1, y1, [kind |-> "text"]),
                         Draw(1, y2, [kind |-> "emotion"]),
                         Draw(1, y3, [kind |-> "heading"])>>
           /\ y' = y3 - HeadingGap
    /\ page' = 1
    /\ k' = 0
    /\ pdfpc' = "loop"
    /\ UNCHANGED pdftimeline

PdfLine_late_break ==
    /\ UNCHANGED <<pureVars, handlerVars>>
    /\ pdfpc = "loop"
    /\ k < Len(pdftimeline)
    /\ drawn' = Append(drawn, Draw(page, y, [kind |-> "span", span |-> pdftimeline[k + 1]]))
    /\ k' = k + 1
    /\ IF y - LineGap < 0
       THEN /\ page' = page + 1
            /\ y' = PageHeight - TopMargin
       ELSE /\ page' = page
            /\ y' = y - LineGap
    /\ UNCHANGED <<pdfpc, pdftimeline>>

\* one iteration of the loop over the timeline
PdfLine ==
    /\ UNCHANGED <<pureVars, handlerVars>>
    /\ pdfpc = "loop"
    /\ k < Len(pdftimeline)
    /\ drawn' = Append(drawn, Draw(page, y, [kind |-> "span", span |-> pdftimeline[k + 1]]))
    /\ k' = k + 1
    /\ IF y - LineGap < BottomMargin
       THEN /\ page' = page + 1
            /\ y' = PageHeight - TopMargin
       ELSE /\ page' = page
            /\ y' = y - LineGap
    /\ UNCHANGED <<pdfpc, pdftimeline>>

\* the loop is over: c.save()
PdfSave ==
    /\ UNCHANGED <<pureVars, handlerVars>>
    /\ pdfpc = "loop"
    /\ k = Len(pdftimeline)
    /\ pdfpc' = "done"
    /\ UNCHANGED <<pdftimeline, y, k, page, drawn>>

\* the timelines split_timeline returns for 0..MaxSpans full windows of words
\* the scorer does not know
PdfTimelines ==
    {[i \in 1..n |-> [start |-> step * (i - 1), end |-> step * i,
                      text |-> Join([j \in 1..Window |-> the]),
                      emotion |-> NeutralLabel]] : n \in 0..MaxSpans}

----------------------------------------------------------------------------
(* A call of a pure function *)

CallDetectEmotion ==
    /\ UNCHANGED <<handlerVars, pdfVars>>
    /\ fn = "none"
    /\ fn' = "detect_emotion"
    /\ ret' = detect_emotion(arg.text)
    /\ UNCHANGED arg

CallSplitTimeline ==
    /\ UNCHANGED <<handlerVars, pdfVars>>
    /\ fn = "none"
    /\ fn' = "split_timeline"
    /\ ret' = split_timeline(arg.text)
    /\ UNCHANGED arg

----------------------------------------------------------------------------
(* Specifications *)

PureIdle ==
    /\ fn = "none"
    /\ arg = [words |-> <<>>, text |-> <<>>]
    /\ ret = <<>>

HandlerIdle ==
    /\ pc = [t \in Threads |-> "idle"]
    /\ req = [t \in Threads |-> NoFile]
    /\ filename = [t \in Threads |-> ""]
    /\ text = [t \in Threads |-> <<>>]
    /\ emotion = [t \in Threads |-> <<>>]
    /\ timeline = [t \in Threads |-> <<>>]
    /\ emotion_count = [t \in Threads |-> <<>>]
    /\ pdf_file = [t \in Threads |-> ""]
    /\ response = [t \in Threads |-> NoResponse]
    /\ uploads = [n \in SavedNames |-> Absent]
    /\ static = [n \in {ReportPdf} |-> Absent]
    /\ reports = <<>>
    /\ served = 0
    /\ log = <<>>

PdfIdle ==
    /\ pdfpc = "off"
    /\ pdftimeline = <<>>
    /\ y = 0
    /\ k = 0
    /\ page = 0
    /\ drawn = <<>>

\* the server with two handler threads
Init == PureIdle /\ HandlerIdle /\ PdfIdle
Next == \E t \in Threads : Handler(t, Requests, MaxRequests)
Spec == Init /\ [][Next]_vars

\* one request, of any transcript, handled alone
NextPipe == Handler("t1", PipeRequests, 1)
SpecPipe == Init /\ [][NextPipe]_vars

\* the classifier called on a text
InitCls ==
    /\ fn = "none"
    /\ arg \in ClsArgs
    /\ ret = <<>>
    /\ HandlerIdle
    /\ PdfIdle
NextCls == CallDetectEmotion
SpecCls == InitCls /\ [][NextCls]_vars

\* the segmenter called on a text
InitSeg ==
    /\ fn = "none"
    /\ arg \in SegArgs
    /\ ret = <<>>
    /\ HandlerIdle
    /\ PdfIdle
NextSeg == CallSplitTimeline
SpecSeg == InitSeg /\ [][NextSeg]_vars

\* the renderer called on a timeline
InitPdf ==
    /\ PureIdle
    /\ HandlerIdle
    /\ pdfpc = "start"
    /\ pdftimeline \in PdfTimelines
    /\ y = 0
    /\ k = 0
    /\ page = 0
    /\ drawn = <<>>
NextPdf == PdfBegin \/ PdfLine \/ PdfSave
SpecPdf == InitPdf /\ [][NextPdf]_vars

----------------------------------------------------------------------------
(* Properties *)

\* a label without its emoji: the string before the space
NameOf(label) == SubSeq(label, 1, Len(label) - 2)

\* the label the code's thresholds give a polarity
ByPolarity(q) ==
    IF q.num > 20 * q.den THEN HappyLabel
    ELSE IF q.num < (-20) * q.den THEN SadLabel
    ELSE NeutralLabel

RECURSIVE Flatten(_)
Flatten(ss) == IF ss = <<>> THEN <<>> ELSE ss[1] \o Flatten(Tail(ss))

RECURSIVE SumSeq(_)
SumSeq(ns) == IF ns = <<>> THEN 0 ELSE ns[1] + SumSeq(Tail(ns))

\* sub occurs in s as a substring
Occurs(sub, s) ==
    \E i \in 1..(Len(s) - Len(sub) + 1) : SubSeq(s, i, i + Len(sub) - 1) = sub

NoWords(s) == \A i \in 1..Len(s) : IsSpace(s[i])

\* C1: split_timeline returns ceil(wordCount/5) spans in transcript order;
\* span i holds words [5i, 5i+5) joined by single spaces, with start 3i and
\* end 3i+3; every word is in exactly one span and consecutive spans abut.
C1_SegmentsInWindowsOfFive ==
    fn = "split_timeline" =>
        LET ws == arg.words
            n  == Len(ws)
        IN  /\ Len(ret) = (n + 4) \div 5
            /\ \A i \in 0..(Len(ret) - 1) :
                /\ ret[i + 1].start = 3 * i
                /\ ret[i + 1].end = 3 * i + 3
                /\ ret[i + 1].text =
                       Join(SubSeq(ws, 5 * i + 1, IF 5 * i + 5 < n THEN 5 * i + 5 ELSE n))
            /\ \A i \in 1..(Len(ret) - 1) : ret[i].end = ret[i + 1].start
            /\ Flatten([i \in 1..Len(ret) |-> Split(ret[i].text)]) = ws

\* a transcript of six words with irregular whitespace: two spans, the last short
C1_Witness ==
    /\ fn = "split_timeline"
    /\ Len(arg.words) = 6
    /\ arg.text # Join(arg.words)
    /\ Len(ret) = 2
    /\ ret[2].text = arg.words[6]

\* labels and counts are the histogram of timeline tl
IsHistogramOf(labels, counts, tl) ==
    /\ Len(labels) = Len(counts)
    /\ {labels[i] : i \in 1..Len(labels)} = {NameOf(tl[j].emotion) : j \in 1..Len(tl)}
    /\ \A i, j \in 1..Len(labels) : i # j => labels[i] # labels[j]
    /\ \A i \in 1..Len(counts) :
        /\ counts[i] \in Nat \ {0}
        /\ counts[i] = Cardinality({j \in 1..Len(tl) : NameOf(tl[j].emotion) = labels[i]})
    /\ SumSeq(counts) = Len(tl)

\* C2: after the upload handler has tallied a timeline, the histogram's keys
\* are exactly the distinct labels of the timeline's spans, every count is a
\* positive integer, and the counts sum to the number of spans.
C2_HistogramMatchesTimeline ==
    \A t \in Threads :
        /\ pc[t] \in {"pdf", "insert", "respond"} =>
               IsHistogramOf(DictKeys(emotion_count[t]), DictValues(emotion_count[t]),
                             timeline[t])
        /\ response[t].kind = "ok" =>
               IsHistogramOf(response[t].chart_labels, response[t].chart_data,
                             response[t].timeline)

\* a timeline of two spans with the same label: one key, of count 2
C2_Witness ==
    \E t \in Threads :
        /\ response[t].kind = "ok"
        /\ Len(response[t].timeline) = 2
        /\ response[t].chart_data = <<2>>

CountOf(tl, name) == Cardinality({j \in 1..Len(tl) : NameOf(tl[j].emotion) = name})
FirstOf(tl, name) == CHOOSE j \in 1..Len(tl) :
    /\ NameOf(tl[j].emotion) = name
    /\ \A i \in 1..(j - 1) : NameOf(tl[i].emotion) # name

\* C3 as stated: for a non-empty timeline the emotion of the response is a
\* label of maximal count over the spans, the first in the timeline among ties.
C3_DominantIsArgmax ==
    \A t \in Threads :
        (response[t].kind = "ok" /\ response[t].timeline # <<>>) =>
            LET tl   == response[t].timeline
                name == NameOf(response[t].emotion)
            IN  /\ CountOf(tl, name) > 0
                /\ \A j \in 1..Len(tl) :
                    LET other == NameOf(tl[j].emotion)
                    IN  /\ CountOf(tl, other) <= CountOf(tl, name)
                        /\ CountOf(tl, other) = CountOf(tl, name) =>
                               FirstOf(tl, name) <= FirstOf(tl, other)

\* C3 amended: the emotion of the response is the classifier's label of the
\* whole transcript, whatever the labels of the spans.
C3_DominantIsWholeTranscriptLabel ==
    \A t \in Threads :
        response[t].kind = "ok" =>
            response[t].emotion = ByPolarity(Sentiment(response[t].text).polarity)

\* a response whose emotion is the label of none of its spans
C3_Witness ==
    \E t \in Threads :
        /\ response[t].kind = "ok"
        /\ Len(response[t].timeline) = 2
        /\ CountOf(response[t].timeline, NameOf(response[t].emotion)) = 0

NoDataLabel == <<"N", "o", "D", "a", "t", "a">>

\* C4 as stated: an empty transcript yields an empty timeline, an empty
\* histogram and the NoData sentinel as the emotion.
C4_EmptyTranscriptIsNoData ==
    \A t \in Threads :
        (response[t].kind = "ok" /\ NoWords(response[t].text)) =>
            /\ response[t].timeline = <<>>
            /\ response[t].chart_labels = <<>>
            /\ response[t].chart_data = <<>>
            /\ response[t].emotion = NoDataLabel

\* C4 amended: an empty transcript yields an empty timeline, an empty
\* histogram and the Neutral label as the emotion.
C4_EmptyTranscriptIsNeutral ==
    \A t \in Threads :
        (response[t].kind = "ok" /\ NoWords(response[t].text)) =>
            /\ response[t].timeline = <<>>
            /\ response[t].chart_labels = <<>>
            /\ response[t].chart_data = <<>>
            /\ response[t].emotion = NeutralLabel

\* the response to an upload whose transcript is empty
C4_Witness ==
    \E t \in Threads :
        /\ response[t].kind = "ok"
        /\ response[t].text = <<>>
        /\ Len(reports) = 1

\* C5 as stated, on the triggers the specification names: a text in which an
\* Angry trigger occurs is Angry, whatever else occurs in it; otherwise a
\* text in which a Happy trigger occurs is Happy.
C5_KeywordsFirst ==
    fn = "detect_emotion" =>
        /\ Occurs(angry, arg.text) => NameOf(ret) = NameOf(AngryLabel)
        /\ (~Occurs(angry, arg.text) /\ Occurs(happy, arg.text)) => ret = HappyLabel

\* C5 amended: no trigger list is checked; a text in which trigger words
\* occur is labelled Happy, Sad or Neutral by its polarity like any other.
C5_KeywordsScoredLikeAnyWord ==
    (fn = "detect_emotion" /\ (Occurs(angry, arg.text) \/ Occurs(happy, arg.text))) =>
        /\ ret \in {HappyLabel, SadLabel, NeutralLabel}
        /\ ret = ByPolarity(Sentiment(arg.text).polarity)

\* a text with an Angry and a Happy trigger, labelled Neutral
C5_Witness ==
    /\ fn = "detect_emotion"
    /\ Occurs(angry, arg.text)
    /\ Occurs(happy, arg.text)
    /\ ret = NeutralLabel

VeryHappyName == <<"V", "e", "r", "y", "H", "a", "p", "p", "y">>
VerySadName == <<"V", "e", "r", "y", "S", "a", "d">>
EmotionalName == <<"E", "m", "o", "t", "i", "o", "n", "a", "l">>

\* C6 as stated: without a keyword match, polarity >= 0.5 is VeryHappy,
\* 0.2 <= polarity < 0.5 Happy, polarity <= -0.5 VerySad, -0.5 < polarity <=
\* -0.2 Sad, otherwise subjectivity >= 0.6 Emotional, otherwise Neutral.
C6_SixWayThresholds ==
    (fn = "detect_emotion" /\ ~Occurs(angry, arg.text) /\ ~Occurs(happy, arg.text)) =>
        LET p == Sentiment(arg.text).polarity
            u == Sentiment(arg.text).subjectivity
        IN  NameOf(ret) =
                IF p.num >= 50 * p.den THEN VeryHappyName
                ELSE IF p.num >= 20 * p.den THEN NameOf(HappyLabel)
                ELSE IF p.num <= (-50) * p.den THEN VerySadName
                ELSE IF p.num <= (-20) * p.den THEN NameOf(SadLabel)
                ELSE IF u.num >= 60 * u.den THEN EmotionalName
                ELSE NameOf(NeutralLabel)

\* C6 amended: polarity > 0.2 is Happy, polarity < -0.2 is Sad, anything
\* else, 0.2 and -0.2 included, is Neutral, whatever the subjectivity; every
\* polarity in [-1, 1] has exactly one of the three labels.
C6_ThreeWayThresholds ==
    fn = "detect_emotion" =>
        LET p == Sentiment(arg.text).polarity
        IN  /\ p.den > 0 /\ p.num >= (-100) * p.den /\ p.num <= 100 * p.den
            /\ ret \in {HappyLabel, SadLabel, NeutralLabel}
            /\ ret = HappyLabel <=> p.num > 20 * p.den
            /\ ret = SadLabel <=> p.num < (-20) * p.den
            /\ ret = NeutralLabel <=> (p.num >= (-20) * p.den /\ p.num <= 20 * p.den)

\* a text of polarity exactly 0.2, labelled Neutral
C6_Witness ==
    /\ fn = "detect_emotion"
    /\ Sentiment(arg.text).polarity.num = 20 * Sentiment(arg.text).polarity.den
    /\ ret = NeutralLabel

\* C7: an upload whose audio cannot be read, or whose speech is not
\* recognized, is still answered with a report, never with the error outcome.
C7_UpstreamFailureStillReports ==
    \A t \in Threads :
        response[t].kind = "error" => response[t].error # AudioFileError

\* C8: whatever the interleaving of two uploads, the PDF a request's reports
\* row and response name holds that request's transcript, emotion and timeline.
C8_ReportIsTheRequestsOwn ==
    [][\A t \in Threads :
        /\ (pc[t] = "insert" /\ pc'[t] = "respond") =>
               static[pdf_file[t]] = [text |-> text[t], emotion |-> emotion[t],
                                      timeline |-> timeline[t]]
        /\ (pc[t] = "respond" /\ pc'[t] = "done" /\ response'[t].kind = "ok") =>
               static[response'[t].pdf_file] =
                   [text |-> response'[t].text, emotion |-> response'[t].emotion,
                    timeline |-> response'[t].timeline]]_vars

SpanDraws == SelectSeq(drawn, LAMBDA d : d.item.kind = "span")

\* what C10 says of the spans and of the margin
DrawsSpansAboveMargin ==
    /\ Len(SpanDraws) = k
    /\ \A i \in 1..k : SpanDraws[i].item.span = pdftimeline[i]
    /\ pdfpc = "done" => k = Len(pdftimeline)
    /\ \A i \in 1..Len(drawn) : drawn[i].y >= 5000
    /\ \A i \in 1..(Len(SpanDraws) - 1) :
        IF SpanDraws[i].y - 2000 < 5000
        THEN SpanDraws[i + 1].page = SpanDraws[i].page + 1
        ELSE /\ SpanDraws[i + 1].page = SpanDraws[i].page
             /\ SpanDraws[i + 1].y = SpanDraws[i].y - 2000

\* C10 as stated: every span is drawn once, in order, never below the bottom
\* margin; a new page starts when the cursor would fall below it, and the
\* title is drawn again at the top of each new page.
C10_BreaksAndRepeatsHeader ==
    pdfpc \in {"loop", "done"} =>
        /\ DrawsSpansAboveMargin
        /\ \A i \in 2..Len(drawn) :
            drawn[i].page > drawn[i - 1].page => drawn[i].item.kind = "title"

\* C10 amended: as stated, but a new page starts with the next span at the
\* top margin, and the title is drawn once, on the first page.
C10_BreaksWithoutHeader ==
    pdfpc \in {"loop", "done"} =>
        /\ DrawsSpansAboveMargin
        /\ \A i \in 2..Len(drawn) :
            drawn[i].page > drawn[i - 1].page =>
                /\ drawn[i].item.kind = "span"
                /\ drawn[i].y = 84189 - 5000
        /\ \A i \in 1..Len(drawn) : drawn[i].item.kind = "title" <=> i = 1

\* a timeline that ran over the first page
C10_Witness ==
    /\ pdfpc = "done"
    /\ \E i \in 1..Len(drawn) : drawn[i].page = 2 /\ drawn[i].item.kind = "span"

====
